---------------------------- MODULE Spec2Model ----------------------------
(***************************************************************************)
(* Model of the appointment agent's orchestration core:                    *)
(*                                                                         *)
(*   - the circuit breaker of infrastructure/resilience/circuit_breaker.py *)
(*     shared by concurrent callers (specification Spec);                  *)
(*   - the LangGraph workflow of appointment_agent.py driven by            *)
(*     api.execute_agent, whose nodes call the completion service through  *)
(*     that breaker (specification SpecEngine), and the same workflow      *)
(*     followed with its AgentState under small recursion limits           *)
(*     (specification SpecRun);                                            *)
(*   - the registry get_circuit_breaker of circuit_breaker.py entered by   *)
(*     concurrent threads (specification SpecRegistry);                    *)
(*   - the same workflow with an audit trail and a decision log whose      *)
(*     file append can fail (specification SpecSinks);                     *)
(*   - the wrapper of infrastructure/resilience/retry.py (specification    *)
(*     SpecRetry);                                                         *)
(*   - the PromptRegistry of infrastructure/prompts/registry.py            *)
(*     (specification SpecPrompts).                                        *)
(*                                                                         *)
(* Environment: the completion service may return or raise an Exception    *)
(* (a BaseException such as KeyboardInterrupt, which call does not catch,  *)
(* is not modelled); the wall clock only moves forward; the memory store   *)
(* may fail on every recall and store; the audit sink, the metrics sink    *)
(* and the decision log accept every record in every specification but    *)
(* SpecSinks.                                                              *)
(***************************************************************************)
EXTENDS Integers, Sequences, FiniteSets, TLC

\* ---------------------------------------------------------------- bounds
\* Number of threads that share one breaker.
NumThreads == 2
\* The clock runs from 0 to MaxTime (abstract time units).
MaxTime == 3
\* Breaker configurations explored: failure_threshold in
\* 1..MaxFailureThreshold or the default, recovery_timeout in
\* 1..MaxRecoveryTimeout, half_open_max_calls in 1..MaxHalfOpenMaxCalls.
MaxFailureThreshold == 2
MaxRecoveryTimeout == 2
MaxHalfOpenMaxCalls == 2
\* The clock may advance by at most MaxDrift between two reads of time.time()
\* made by one handler.
MaxDrift == 1

\* The requests of SpecRun run under a settings.recursion_limit in
\* 1..MaxRecursionLimit.
MaxRecursionLimit == 5

\* Retry configurations explored: max_attempts in 1..MaxAttempts, base_delay
\* in 1..MaxBaseDelay, max_delay in 1..MaxMaxDelay and exponential_base in
\* 1..MaxExponentialBase.
MaxAttempts == 3
MaxBaseDelay == 2
MaxMaxDelay == 4
MaxExponentialBase == 2

\* A prompt name gets at most MaxVersions versions.
MaxVersions == 3

\* ------------------------------------------------------ program constants
\* config/settings.py: circuit_breaker_failure_threshold default.
DefaultFailureThreshold == 5
\* retry.py line 79: the jitter factor 0.5 + random.random(), in hundredths.
JitterBase == 50
Hundredths == 100

Threads == 1..NumThreads

\* CircuitState (circuit_breaker.py:24-27)
CLOSED == "closed"
OPEN == "open"
HALF_OPEN == "half_open"
CircuitState == {CLOSED, OPEN, HALF_OPEN}

\* Exceptions the wrapped operation may raise (subclasses of Exception).
Errors == {"APIError", "TimeoutError"}
CircuitBreakerOpenError == "CircuitBreakerOpenError"

VARIABLES
    cfg,     \* constructor arguments of the breaker
    cb,      \* the breaker's mutable fields
    now,     \* time.time()
    inflight,\* per thread: "idle", or how its running call was admitted
    last,    \* what the last handler did and what its caller observed
    hist,    \* history counters the claims are stated with
    eng,     \* the request api.execute_agent is running through the graph
    reg,     \* the registry _breakers, its lock and the threads inside it
    run,     \* a request followed message by message (specification SpecRun)
    retry,   \* one call through a retry_with_backoff wrapper (SpecRetry)
    prompts, \* PromptRegistry._prompts and its last operation (SpecPrompts)
    api      \* api.py's globals agent and app_graph, and the worker threads
             \* inside _ensure_agent (SpecEnsure)

vars ==
    <<cfg, cb, now, inflight, last, hist, eng, reg, run, retry, prompts, api>>

Max(a, b) == IF a >= b THEN a ELSE b

\* --------------------------------------------------------- CircuitBreaker

\* CircuitBreaker.__init__: the fields a new breaker starts with.
NewBreaker ==
    [state |-> CLOSED,
     failure_count |-> 0,
     success_count |-> 0,
     half_open_calls |-> 0,
     last_failure_time |-> 0]

\* Mutant: a transition changes the state and keeps every counter.
transition_to_keeps_counts(b, new_state) == [b EXCEPT !.state = new_state]

transition_to_half_open_keeps_successes(b, new_state) ==
    IF new_state = CLOSED
    THEN [b EXCEPT !.state = new_state,
                   !.failure_count = 0,
                   !.success_count = 0,
                   !.half_open_calls = 0]
    ELSE IF new_state = HALF_OPEN
    THEN [b EXCEPT !.state = new_state, !.half_open_calls = 0]
    ELSE [b EXCEPT !.state = new_state]

\* CircuitBreaker._transition_to
transition_to(b, new_state) ==
    IF new_state = CLOSED
    THEN [b EXCEPT !.state = new_state,
                   !.failure_count = 0,
                   !.success_count = 0,
                   !.half_open_calls = 0]
    ELSE IF new_state = HALF_OPEN
    THEN [b EXCEPT !.state = new_state,
                   !.half_open_calls = 0,
                   !.success_count = 0]
    ELSE [b EXCEPT !.state = new_state]

\* Mutant: the recovery timeout must be exceeded, not reached.
check_state_transition_late(b, c, t) ==
    IF b.state = OPEN /\ t - b.last_failure_time > c.recovery_timeout
    THEN transition_to(b, HALF_OPEN)
    ELSE b

\* CircuitBreaker._check_state_transition, reading the clock as t
check_state_transition(b, c, t) ==
    IF b.state = OPEN /\ t - b.last_failure_time >= c.recovery_timeout
    THEN transition_to(b, HALF_OPEN)
    ELSE b

\* Mutant: closes one success late.
on_success_late(b, c) ==
    IF b.state = HALF_OPEN
    THEN LET b1 == [b EXCEPT !.success_count = @ + 1]
         IN  IF b1.success_count > c.half_open_max_calls
             THEN transition_to(b1, CLOSED)
             ELSE b1
    ELSE IF b.state = CLOSED
    THEN [b EXCEPT !.failure_count = 0]
    ELSE b

\* Mutant: a success while CLOSED leaves failure_count alone.
on_success_keeps_failures(b, c) ==
    IF b.state = HALF_OPEN
    THEN LET b1 == [b EXCEPT !.success_count = @ + 1]
         IN  IF b1.success_count >= c.half_open_max_calls
             THEN transition_to(b1, CLOSED)
             ELSE b1
    ELSE b

on_success_never_closes(b, c) ==
    IF b.state = HALF_OPEN
    THEN b
    ELSE IF b.state = CLOSED
    THEN [b EXCEPT !.failure_count = 0]
    ELSE b

\* CircuitBreaker._on_success
on_success(b, c) ==
    IF b.state = HALF_OPEN
    THEN LET b1 == [b EXCEPT !.success_count = @ + 1]
         IN  IF b1.success_count >= c.half_open_max_calls
             THEN transition_to(b1, CLOSED)
             ELSE b1
    ELSE IF b.state = CLOSED
    THEN [b EXCEPT !.failure_count = 0]
    ELSE b

\* Mutant: opens one failure late.
on_failure_late(b, c, t) ==
    LET b1 == [b EXCEPT !.failure_count = @ + 1, !.last_failure_time = t]
    IN  IF b1.state = HALF_OPEN
        THEN transition_to(b1, OPEN)
        ELSE IF b1.state = CLOSED /\ b1.failure_count > c.failure_threshold
        THEN transition_to(b1, OPEN)
        ELSE b1

\* Mutant: a half-open failure is forgiven once a probe has succeeded.
on_failure_forgiving(b, c, t) ==
    LET b1 == [b EXCEPT !.failure_count = @ + 1, !.last_failure_time = t]
    IN  IF b1.state = HALF_OPEN /\ b1.success_count = 0
        THEN transition_to(b1, OPEN)
        ELSE IF b1.state = CLOSED /\ b1.failure_count >= c.failure_threshold
        THEN transition_to(b1, OPEN)
        ELSE b1

on_failure_ignored_while_open(b, c, t) ==
    LET b1 == [b EXCEPT !.failure_count = @ + 1, !.last_failure_time = t]
    IN  IF b.state = OPEN THEN b
        ELSE IF b1.state = HALF_OPEN
        THEN transition_to(b1, OPEN)
        ELSE IF b1.state = CLOSED /\ b1.failure_count >= c.failure_threshold
        THEN transition_to(b1, OPEN)
        ELSE b1

\* CircuitBreaker._on_failure, reading the clock as t
on_failure(b, c, t) ==
    LET b1 == [b EXCEPT !.failure_count = @ + 1, !.last_failure_time = t]
    IN  IF b1.state = HALF_OPEN
        THEN transition_to(b1, OPEN)
        ELSE IF b1.state = CLOSED /\ b1.failure_count >= c.failure_threshold
        THEN transition_to(b1, OPEN)
        ELSE b1

\* CircuitBreaker._time_until_recovery, reading the clock as t
time_until_recovery(b, c, t) ==
    Max(0, c.recovery_timeout - (t - b.last_failure_time))

\* Mutant: an OPEN breaker lets the call through.
admission_ignores_open(b, c) ==
    IF b.state = HALF_OPEN
    THEN IF b.half_open_calls >= c.half_open_max_calls
         THEN "rejected_half_open"
         ELSE "probe"
    ELSE "closed"

\* Mutant: one probe more than half_open_max_calls is admitted.
admission_one_more(b, c) ==
    IF b.state = OPEN THEN "rejected_open"
    ELSE IF b.state = HALF_OPEN
    THEN IF b.half_open_calls > c.half_open_max_calls
         THEN "rejected_half_open"
         ELSE "probe"
    ELSE "closed"

\* The admission decision of CircuitBreaker.call (lines 82-99) on the
\* breaker b as _check_state_transition left it:
\* "rejected_open", "rejected_half_open", "probe" or "closed".
admission(b, c) ==
    IF b.state = OPEN THEN "rejected_open"
    ELSE IF b.state = HALF_OPEN
    THEN IF b.half_open_calls >= c.half_open_max_calls
         THEN "rejected_half_open"
         ELSE "probe"
    ELSE "closed"

admit_rejection_is_failure(b, c) ==
    IF admission(b, c) = "probe"
    THEN [b EXCEPT !.half_open_calls = @ + 1]
    ELSE IF admission(b, c) = "closed" THEN b
    ELSE [b EXCEPT !.failure_count = @ + 1]

admit_counts_every_call(b, c) ==
    IF admission(b, c) \in {"probe", "closed"}
    THEN [b EXCEPT !.half_open_calls = @ + 1]
    ELSE b

\* The breaker after the locked section of CircuitBreaker.call.
admit(b, c) ==
    IF admission(b, c) = "probe"
    THEN [b EXCEPT !.half_open_calls = @ + 1]
    ELSE b

\* Mutant: the failure is recorded and swallowed.
call_on_exception_swallowed(e) == [kind |-> "returned", error |-> "none"]

\* What CircuitBreaker.call hands its caller when func raised e (lines 104-106).
call_on_exception(e) == [kind |-> "raised", error |-> e]

\* What CircuitBreaker.call hands its caller when func returned (lines 107-109).
call_on_return == [kind |-> "returned", error |-> "none"]


\* ------------------------------------------------ history (not program state)

\* hist.consec: failures recorded in a row while CLOSED (no success between).
\* hist.window_successes: successes recorded since HALF_OPEN was entered.
\* hist.window_admitted: calls admitted since HALF_OPEN was entered.
\* ev is "failure", "success", "probe" or "other"; pre and post are the
\* breaker's state before and after the handler.
Observe(h, pre, post, ev) ==
    [consec |->
        IF post # CLOSED \/ pre # CLOSED THEN 0
        ELSE IF ev = "failure" THEN h.consec + 1
        ELSE IF ev = "success" THEN 0
        ELSE h.consec,
     window_successes |->
        IF post # HALF_OPEN THEN 0
        ELSE IF pre # HALF_OPEN THEN 0
        ELSE IF ev = "success" THEN h.window_successes + 1
        ELSE h.window_successes,
     window_admitted |->
        IF post # HALF_OPEN THEN 0
        ELSE (IF pre # HALF_OPEN THEN 0 ELSE h.window_admitted)
             + (IF ev = "probe" THEN 1 ELSE 0)]

\* What a handler did: op, the breaker's state and failure_count before it
\* (pre, fc), what its caller got (res, error, remaining) and, when func
\* raised, the exception it raised (raised).
Event(op, b, res, error, remaining, raised) ==
    [op |-> op, pre |-> b.state, fc |-> b.failure_count, res |-> res,
     error |-> error, remaining |-> remaining, raised |-> raised]

\* ------------------------------------------------------------------- Spec

\* AgentState["next"] values the Router schema allows (appointment_agent.py:55-57).
Routes == {"information_node", "booking_node", "FINISH"}

\* What the structured-output completion call can hand the supervisor: a
\* Router decision, or a response without a usable "next"/"reasoning" field
\* (None, a missing key), on which lines 188-189 raise.
Responses == Routes \cup {"invalid"}

\* No request is running (api.py before execute_agent is called).
NoRequest ==
    [node |-> "idle", prev |-> "idle", steps |-> 0, call |-> "idle",
     next |-> "", decision |-> "", status |-> "none", error |-> "none"]

\* settings.recursion_limit, handed to graph.invoke by get_langchain_config.
RecursionLimit == 20

\* --------------------------------------------------------------- registry

\* Dependency names handed to get_circuit_breaker: the agent and the status
\* endpoint use "llm_api", the reset endpoint passes any name of its path.
BreakerNames == {"llm_api", "db"}

\* No thread holds _breakers_lock.
NoThread == 0

\* _breakers = {} and _breakers_lock free at import. breakers[n] is 0 while n
\* is not a key of _breakers, else the instance stored under n: instances of
\* a name are numbered in the order the constructor made them (made[n]).
\* pc, name and got are each thread's position in get_circuit_breaker, its
\* argument and the instance its last call returned. handed[n] (every
\* instance ever returned for n) and raced are history.
NewRegistry ==
    [breakers |-> [n \in BreakerNames |-> 0],
     lock |-> NoThread,
     made |-> [n \in BreakerNames |-> 0],
     pc |-> [t \in Threads |-> "idle"],
     name |-> [t \in Threads |-> "none"],
     got |-> [t \in Threads |-> 0],
     handed |-> [n \in BreakerNames |-> {}],
     raced |-> FALSE]

\* Mutant: the registry is read and written without taking the lock.
lock_acquirable_always(l) == TRUE

\* "with _breakers_lock" (line 207) can be entered when no thread holds it.
lock_acquirable(l) == l = NoThread

\* Thread t calls get_circuit_breaker(n) and reaches line 207. raced records
\* that another thread is at that moment inside the call for the same name,
\* which is not yet in _breakers.
get_circuit_breaker_call(t, n) ==
    /\ reg.pc[t] = "idle"
    /\ reg' = [reg EXCEPT
                 !.pc[t] = "waiting",
                 !.name[t] = n,
                 !.raced = @ \/ (/\ reg.breakers[n] = 0
                                 /\ \E u \in Threads \ {t} :
                                      /\ reg.name[u] = n
                                      /\ reg.pc[u] \in {"waiting", "check",
                                                        "create"})]
    /\ UNCHANGED <<cfg, cb, now, inflight, last, hist, eng, run,
                 retry, prompts, api>>

\* Line 207: t takes _breakers_lock.
get_circuit_breaker_lock(t) ==
    /\ reg.pc[t] = "waiting"
    /\ lock_acquirable(reg.lock)
    /\ reg' = [reg EXCEPT !.pc[t] = "check", !.lock = t]
    /\ UNCHANGED <<cfg, cb, now, inflight, last, hist, eng, run,
                 retry, prompts, api>>

\* Line 208: "if name not in _breakers".
get_circuit_breaker_check(t) ==
    /\ reg.pc[t] = "check"
    /\ reg' = [reg EXCEPT !.pc[t] = IF reg.breakers[reg.name[t]] = 0
                                     THEN "create" ELSE "return"]
    /\ UNCHANGED <<cfg, cb, now, inflight, last, hist, eng, run,
                 retry, prompts, api>>

\* Lines 209-216: a CircuitBreaker is constructed and stored under the name.
get_circuit_breaker_create(t) ==
    /\ reg.pc[t] = "create"
    /\ LET n == reg.name[t]
       IN  reg' = [reg EXCEPT !.made[n] = @ + 1,
                              !.breakers[n] = reg.made[n] + 1,
                              !.pc[t] = "return"]
    /\ UNCHANGED <<cfg, cb, now, inflight, last, hist, eng, run,
                 retry, prompts, api>>

\* Line 217: "return _breakers[name]"; leaving the with block frees the lock.
get_circuit_breaker_return(t) ==
    /\ reg.pc[t] = "return"
    /\ LET n == reg.name[t]
       IN  reg' = [reg EXCEPT !.got[t] = reg.breakers[n],
                              !.handed[n] = @ \cup {reg.breakers[n]},
                              !.lock = IF reg.lock = t THEN NoThread ELSE @,
                              !.pc[t] = "idle"]
    /\ UNCHANGED <<cfg, cb, now, inflight, last, hist, eng, run,
                 retry, prompts, api>>

\* ------------------------------------------------------------- AgentState

\* Messages carry a type, the name given to an assistant message, a content
\* and an id (0 while the message has not been through the reducer).
\* Contents: "query" is the user's text, "id_number" the supervisor's "user's
\* identification number is ..." line, "answer" the last message of a
\* capability agent's run, "unavailable" the "Service temporarily
\* unavailable: ..." text and "error" the "I encountered an error processing
\* your request. Please try again." text.
HumanMessage(content) ==
    [type |-> "human", name |-> "none", content |-> content, id |-> 0]

AIMessage(content, name) ==
    [type |-> "ai", name |-> name, content |-> content, id |-> 0]

\* Mutant: every message of an update goes to the end of the list (a plain
\* list-add reducer).
add_message_appends(left, m) ==
    Append(left, [m EXCEPT !.id = IF m.id = 0 THEN Len(left) + 1 ELSE m.id])

\* The reducer's treatment of one message m of an update: a message whose id
\* is already in the list replaces the message with that id, in place; any
\* other message goes to the end, with a fresh id if it has none.
add_message(left, m) ==
    IF m.id # 0 /\ \E i \in 1..Len(left) : left[i].id = m.id
    THEN [i \in 1..Len(left) |-> IF left[i].id = m.id THEN m ELSE left[i]]
    ELSE Append(left, [m EXCEPT !.id = IF m.id = 0 THEN Len(left) + 1 ELSE m.id])

\* add_messages, the reducer AgentState declares for "messages".
RECURSIVE add_messages(_, _)
add_messages(left, right) ==
    IF right = <<>> THEN left
    ELSE add_messages(add_message(left, Head(right)), Tail(right))

ApplyUpdate_resets_absent(st, update) ==
    [k \in DOMAIN st |->
        IF k \in DOMAIN update
        THEN IF k = "messages" THEN add_messages(st[k], update[k])
             ELSE update[k]
        ELSE IF k = "messages" THEN st[k] ELSE ""]

\* The engine applies a node's update to the state: "messages" goes through
\* its reducer, every other key of the update overwrites the state's value,
\* keys the update does not have keep their value.
ApplyUpdate(st, update) ==
    [k \in DOMAIN st |->
        IF k \in DOMAIN update
        THEN IF k = "messages" THEN add_messages(st[k], update[k])
             ELSE update[k]
        ELSE st[k]]

\* query_data of api.execute_agent (lines 266-274) as graph.invoke takes it in.
query_data ==
    [messages |-> add_messages(<<>>, <<HumanMessage("query")>>),
     id_number |-> "id_number",
     next |-> "",
     query |-> "",
     current_reasoning |-> "",
     memory_context |-> "",
     tenant_id |-> "tenant_id"]

\* user_input.messages.strip() (api.py line 267): the field has min_length=1,
\* and a message of white space only is stripped to the empty string.
UserMessages == {"query", ""}

\* No request is followed yet.
NoRun ==
    [st |-> query_data, node |-> "idle", prev |-> "idle", steps |-> 0,
     call |-> "idle", decision |-> "", status |-> "none", error |-> "none",
     response |-> "none", extractions |-> 0, recursion_limit |-> 1,
     recall |-> "none", extract |-> "none",
     passes |-> 0, records |-> 0, record |-> "none"]

\* -------------------------------------------------- retry_with_backoff
\* Delays are whole numbers of a time unit; a sleep is recorded in hundredths
\* of the unit so that the jitter factor 0.5 + random.random() stays whole.

RetryErrors == {"APIError", "ValueError"}

\* retryable_exceptions: (Exception,) selects every error, a narrower tuple
\* only its own classes.
RetryableSets == {RetryErrors, {"APIError"}}

RetryConfigs ==
    [max_attempts : 1..MaxAttempts,
     base_delay : 1..MaxBaseDelay,
     max_delay : 1..MaxMaxDelay,
     exponential_base : 1..MaxExponentialBase,
     jitter : BOOLEAN,
     retryable_exceptions : RetryableSets]

\* RetryConfig's defaults, lines 22-27 (jitter on, every Exception retried).
DefaultRetryConfig ==
    [max_attempts |-> 3, base_delay |-> 1, max_delay |-> 30,
     exponential_base |-> 2, jitter |-> TRUE,
     retryable_exceptions |-> RetryErrors]

\* random.random(), in hundredths: a value of [0.0, 1.0).
RandomValues == {0, 50, 99}

Min(a, b) == IF a <= b THEN a ELSE b

RECURSIVE Pow(_, _)
Pow(b, n) == IF n = 0 THEN 1 ELSE b * Pow(b, n - 1)

is_retryable_always(c, e) == TRUE

\* Line 63: except config.retryable_exceptions as exc.
is_retryable(c, e) == e \in c.retryable_exceptions

retry_exhausted_never(c, attempt) == FALSE

\* Line 65: if attempt == config.max_attempts.
retry_exhausted(c, attempt) == attempt = c.max_attempts

backoff_delay_uncapped(c, attempt) ==
    c.base_delay * Pow(c.exponential_base, attempt - 1)

\* Lines 74-77: the delay after the failed attempt, before jitter.
backoff_delay(c, attempt) ==
    Min(c.base_delay * Pow(c.exponential_base, attempt - 1), c.max_delay)

\* Lines 78-79: delay * (0.5 + random.random()) with jitter, in hundredths
\* of the time unit; r is the value of random.random().
jittered(c, delay, r) ==
    IF c.jitter THEN delay * (JitterBase + r) ELSE delay * Hundredths

\* No wrapped call has been made.
NoRetry ==
    [cfg |-> DefaultRetryConfig, pc |-> "idle", attempt |-> 0, calls |-> 0,
     sleeps |-> <<>>, errors |-> <<>>, error |-> "none"]

\* ------------------------------------------------------- PromptRegistry

\* PromptStatus (registry.py:24-28)
DRAFT == "draft"
ACTIVE == "active"
DEPRECATED == "deprecated"
ARCHIVED == "archived"

PromptNames == {"supervisor", "booking"}

\* What _persist can end with: the JSON file is written, or open/json.dump
\* raises after _prompts was changed.
PersistResults == {"none", "OSError"}

\* PromptRegistry.__init__ over an empty storage directory.
NewPromptRegistry ==
    [versions |-> [n \in PromptNames |-> <<>>],
     op |-> "init", name |-> "none", version |-> 0, raised |-> "none"]

\* The loop statement shared by register and activate: an ACTIVE version
\* becomes DEPRECATED.
deprecate_if_active(v) ==
    IF v.status = ACTIVE THEN [v EXCEPT !.status = DEPRECATED] ELSE v

register_versions_keeps_active(vs, auto_activate) ==
    Append(vs, [version |-> Len(vs) + 1,
                status |-> IF auto_activate THEN ACTIVE ELSE DRAFT])

\* register, lines 110-131: the versions of the name after registering.
register_versions(vs, auto_activate) ==
    Append(IF auto_activate
           THEN [i \in 1..Len(vs) |-> deprecate_if_active(vs[i])]
           ELSE vs,
           [version |-> Len(vs) + 1,
            status |-> IF auto_activate THEN ACTIVE ELSE DRAFT])

\* _get_version, lines 199-203, and the search of activate: is there a
\* version with this number?
has_version(vs, version) == \E i \in 1..Len(vs) : vs[i].version = version

\* activate, lines 139-150: the versions of the name after the loop and the
\* assignment to the target (when there is no target only the loop acted).
activate_versions(vs, version) ==
    [i \in 1..Len(vs) |->
        IF vs[i].version = version
        THEN [vs[i] EXCEPT !.status = ACTIVE]
        ELSE deprecate_if_active(vs[i])]

\* deprecate, lines 157-158.
deprecate_versions(vs, version) ==
    [i \in 1..Len(vs) |->
        IF vs[i].version = version
        THEN [vs[i] EXCEPT !.status = DEPRECATED]
        ELSE vs[i]]

\* settings.recursion_limit (an integer >= 1) as get_langchain_config hands
\* it to graph.invoke.
RecursionLimits == 1..MaxRecursionLimit

\* ------------------------------------------------------ api._ensure_agent

\* Python's None, and the values the globals agent and app_graph can hold: the
\* k-th DoctorAppointmentAgent constructed, and the graph compiled from it.
None == 0
Agents == 1..NumThreads

\* The module's globals at import (agent = None, app_graph = None), with every
\* worker thread outside _ensure_agent. constructions counts the calls of
\* DoctorAppointmentAgent(); result is what a thread's last call returned,
\* and response what execute_agent then answered.
NewApi ==
    [agent |-> None,
     app_graph |-> None,
     constructions |-> 0,
     pc |-> [t \in Threads |-> "idle"],
     returned |-> [t \in Threads |-> FALSE],
     result |-> [t \in Threads |-> None],
     response |-> [t \in Threads |-> "none"]]

Configs ==
    [failure_threshold : (1..MaxFailureThreshold) \cup {DefaultFailureThreshold},
     recovery_timeout : 1..MaxRecoveryTimeout,
     half_open_max_calls : 1..MaxHalfOpenMaxCalls]

Init ==
    /\ cfg \in Configs
    /\ cb = NewBreaker
    /\ now = 0
    /\ inflight = [t \in Threads |-> "idle"]
    /\ last = Event("init", NewBreaker, "none", "none", 0, "none")
    /\ hist = [consec |-> 0, window_successes |-> 0, window_admitted |-> 0]
    /\ eng = NoRequest
    /\ reg = NewRegistry
    /\ run = NoRun
    /\ retry = NoRetry
    /\ prompts = NewPromptRegistry
    /\ api = NewApi

\* The clock advances.
Tick ==
    /\ now < MaxTime
    /\ now' = now + 1
    /\ last' = Event("tick", cb, "none", "none", 0, "none")
    /\ UNCHANGED <<cfg, cb, inflight, hist, eng, reg, run, retry, prompts, api>>

\* The locked section of CircuitBreaker.call (lines 79-99) with admission
\* result a. A rejection raises CircuitBreakerOpenError and func is not
\* invoked; an admitted call leaves the lock and starts func. The OPEN
\* rejection reads the clock a second time for its message.
call_locked(a) ==
    LET b1 == check_state_transition(cb, cfg, now)
    IN  /\ a = admission(b1, cfg)
        /\ cb' = admit(b1, cfg)
        /\ \E d \in 0..MaxDrift :
             /\ now + d <= MaxTime
             /\ (a # "rejected_open" => d = 0)
             /\ now' = now + d
             /\ last' = Event("call", cb, a,
                              IF a \in {"rejected_open", "rejected_half_open"}
                              THEN CircuitBreakerOpenError ELSE "none",
                              IF a = "rejected_open"
                              THEN time_until_recovery(b1, cfg, now + d) ELSE 0,
                              "none")
        /\ hist' = Observe(hist, cb.state, cb'.state,
                           IF a = "probe" THEN "probe" ELSE "other")

\* Lines 107-109 of CircuitBreaker.call: func returned.
call_returns ==
    /\ cb' = on_success(cb, cfg)
    /\ last' = Event("return", cb, call_on_return.kind, call_on_return.error,
                     0, "none")
    /\ hist' = Observe(hist, cb.state, cb'.state, "success")
    /\ now' = now

\* Lines 104-106 of CircuitBreaker.call: func raised e.
call_raises(e) ==
    /\ cb' = on_failure(cb, cfg, now)
    /\ last' = Event("raise", cb, call_on_exception(e).kind,
                     call_on_exception(e).error, 0, e)
    /\ hist' = Observe(hist, cb.state, cb'.state, "failure")
    /\ now' = now

Admissions == {"rejected_open", "rejected_half_open", "probe", "closed"}

\* Mutant: the lock is kept until func has finished.
lock_holders_during_func(infl) == {t \in Threads : infl[t] # "idle"}

\* The threads that hold _lock between two handler steps. Every "with
\* self._lock" block is one step of the model; the block of call ends at line
\* 99 and func starts at line 103, so a thread that runs func holds nothing.
lock_holders(infl) == {}

\* Thread t calls CircuitBreaker.call.
call(t) ==
    /\ inflight[t] = "idle"
    /\ lock_holders(inflight) \subseteq {t}
    /\ \E a \in Admissions :
         /\ call_locked(a)
         /\ inflight' = [inflight EXCEPT ![t] =
                           IF a \in {"probe", "closed"} THEN a ELSE "idle"]
    /\ UNCHANGED <<cfg, eng, reg, run, retry, prompts, api>>

\* func returns in thread t: _on_success, then call returns the result.
func_returns(t) ==
    /\ inflight[t] # "idle"
    /\ lock_holders(inflight) \subseteq {t}
    /\ call_returns
    /\ inflight' = [inflight EXCEPT ![t] = "idle"]
    /\ UNCHANGED <<cfg, eng, reg, run, retry, prompts, api>>

\* func raises e in thread t: _on_failure, then call re-raises.
func_raises(t, e) ==
    /\ inflight[t] # "idle"
    /\ lock_holders(inflight) \subseteq {t}
    /\ call_raises(e)
    /\ inflight' = [inflight EXCEPT ![t] = "idle"]
    /\ UNCHANGED <<cfg, eng, reg, run, retry, prompts, api>>

\* CircuitBreaker.state (property)
state_property ==
    /\ lock_holders(inflight) = {}
    /\ cb' = check_state_transition(cb, cfg, now)
    /\ last' = Event("state", cb, cb'.state, "none", 0, "none")
    /\ hist' = Observe(hist, cb.state, cb'.state, "other")
    /\ UNCHANGED <<cfg, now, inflight, eng, reg, run, retry, prompts, api>>

\* CircuitBreaker.get_status; time_until_recovery reads the clock again.
get_status ==
    /\ lock_holders(inflight) = {}
    /\ cb' = check_state_transition(cb, cfg, now)
    /\ \E d \in 0..MaxDrift :
         /\ now + d <= MaxTime
         /\ (cb'.state # OPEN => d = 0)
         /\ now' = now + d
         /\ last' = Event("get_status", cb, cb'.state, "none",
                          IF cb'.state = OPEN
                          THEN time_until_recovery(cb', cfg, now + d) ELSE 0,
                          "none")
    /\ hist' = Observe(hist, cb.state, cb'.state, "other")
    /\ UNCHANGED <<cfg, inflight, eng, reg, run, retry, prompts, api>>

\* CircuitBreaker.reset (the history counters restart with the breaker)
reset ==
    /\ lock_holders(inflight) = {}
    /\ cb' = transition_to(cb, CLOSED)
    /\ last' = Event("reset", cb, cb'.state, "none", 0, "none")
    /\ hist' = [consec |-> 0, window_successes |-> 0, window_admitted |-> 0]
    /\ UNCHANGED <<cfg, now, inflight, eng, reg, run, retry, prompts, api>>

Next ==
    \/ Tick
    \/ \E t \in Threads : call(t)
    \/ \E t \in Threads : func_returns(t)
    \/ \E t \in Threads, e \in Errors : func_raises(t, e)
    \/ state_property
    \/ get_status
    \/ reset

Spec == Init /\ [][Next]_vars

\* The wrapped call of thread t completes: func returns or raises an
\* Exception.
Completes(t) == func_returns(t) \/ \E e \in Errors : func_raises(t, e)

\* The breakers of SpecLive open on one failure and recover after one time
\* unit; half_open_max_calls varies.
InitLive ==
    /\ Init
    /\ cfg.failure_threshold = 1
    /\ cfg.recovery_timeout = 1

\* Spec in which every admitted call eventually completes.
SpecLive ==
    InitLive /\ [][Next]_vars /\ \A t \in Threads : WF_vars(Completes(t))

\* ----------------------------------------------------------- SpecRegistry
\* Threads of the process call get_circuit_breaker at any time.
RegistryNext ==
    \/ \E t \in Threads, n \in BreakerNames : get_circuit_breaker_call(t, n)
    \/ \E t \in Threads : get_circuit_breaker_lock(t)
    \/ \E t \in Threads : get_circuit_breaker_check(t)
    \/ \E t \in Threads : get_circuit_breaker_create(t)
    \/ \E t \in Threads : get_circuit_breaker_return(t)

\* The registry does not depend on the settings the breakers are made with.
InitRegistry == Init /\ cfg.failure_threshold = DefaultFailureThreshold

SpecRegistry == InitRegistry /\ [][RegistryNext]_vars

\* ------------------------------------------------------------- SpecEngine
\* One request at a time runs through the compiled graph; the node calls of
\* the process's other requests appear as thread 1 of Spec sharing the breaker.

END == "__end__"

\* Mutant: FINISH ends the graph at once.
supervisor_goto_end(d) == IF d = "FINISH" THEN END ELSE d

\* supervisor_node, lines 217-218: FINISH is remapped to memory_extraction.
supervisor_goto(d) == IF d = "FINISH" THEN "memory_extraction" ELSE d

\* The graph moves from the node that just ran to goto (a Command's goto or
\* a static edge); reaching END makes graph.invoke return and execute_agent
\* answer with the final state.
Goto(e, goto) ==
    [e EXCEPT !.prev = e.node,
              !.node = goto,
              !.steps = e.steps + 1,
              !.call = "idle",
              !.status = IF goto = END THEN "returned" ELSE "running"]

\* A node may run: the request is live and the recursion limit leaves a step.
CanRun(n) ==
    /\ eng.status = "running"
    /\ eng.node = n
    /\ eng.steps < RecursionLimit

\* api.execute_agent builds query_data and calls graph.invoke; the edge
\* START -> memory_retrieval selects the first node.
execute_agent ==
    /\ eng.status # "running"
    /\ eng' = [node |-> "memory_retrieval", prev |-> "__start__", steps |-> 0,
               call |-> "idle", next |-> "", decision |-> "",
               status |-> "running", error |-> "none"]
    /\ UNCHANGED <<cfg, cb, now, inflight, last, hist, reg, run,
                 retry, prompts, api>>

\* graph.invoke raises GraphRecursionError when a node is due and
\* recursion_limit steps have run; execute_agent answers HTTP 500.
graph_recursion_error ==
    /\ eng.status = "running"
    /\ eng.steps >= RecursionLimit
    /\ eng' = [eng EXCEPT !.status = "failed", !.error = "GraphRecursionError"]
    /\ UNCHANGED <<cfg, cb, now, inflight, last, hist, reg, run,
                 retry, prompts, api>>

\* memory_retrieval_node: always Command(goto="supervisor").
memory_retrieval_node ==
    /\ CanRun("memory_retrieval")
    /\ eng' = Goto(eng, "supervisor")
    /\ UNCHANGED <<cfg, cb, now, inflight, last, hist, reg, run,
                 retry, prompts, api>>

\* supervisor_node up to the breaker's admission decision (lines 151-186):
\* a rejection is caught and routed to memory_extraction.
supervisor_node_call ==
    /\ CanRun("supervisor")
    /\ eng.call = "idle"
    /\ \E a \in Admissions :
         /\ call_locked(a)
         /\ eng' = IF a \in {"probe", "closed"}
                   THEN [eng EXCEPT !.call = a]
                   ELSE [Goto(eng, "memory_extraction") EXCEPT
                            !.next = "memory_extraction",
                            !.decision = "rejected"]
    /\ UNCHANGED <<cfg, inflight, reg, run, retry, prompts, api>>

\* The completion call returns r to the supervisor (lines 188-230).
supervisor_node_returns(r) ==
    /\ eng.status = "running"
    /\ eng.node = "supervisor"
    /\ eng.call # "idle"
    /\ call_returns
    /\ eng' = IF r \in Routes
              THEN [Goto(eng, supervisor_goto(r)) EXCEPT
                       !.next = supervisor_goto(r),
                       !.decision = r]
              ELSE [eng EXCEPT !.call = "idle", !.decision = r,
                               !.status = "failed", !.error = "KeyError"]
    /\ UNCHANGED <<cfg, inflight, reg, run, retry, prompts, api>>

\* The completion call raises e: the breaker re-raises it, supervisor_node
\* catches only CircuitBreakerOpenError, and execute_agent answers HTTP 500.
supervisor_node_raises(e) ==
    /\ eng.status = "running"
    /\ eng.node = "supervisor"
    /\ eng.call # "idle"
    /\ call_raises(e)
    /\ eng' = [eng EXCEPT !.call = "idle", !.status = "failed", !.error = e]
    /\ UNCHANGED <<cfg, inflight, reg, run, retry, prompts, api>>

CapabilityNodes == {"information_node", "booking_node"}

\* information_node / booking_node up to the breaker's admission decision;
\* a rejection becomes the "Service temporarily unavailable" message.
capability_node_call(n) ==
    /\ CanRun(n)
    /\ eng.call = "idle"
    /\ \E a \in Admissions :
         /\ call_locked(a)
         /\ eng' = IF a \in {"probe", "closed"}
                   THEN [eng EXCEPT !.call = a]
                   ELSE Goto(eng, "supervisor")
    /\ UNCHANGED <<cfg, inflight, reg, run, retry, prompts, api>>

\* The agent call of a capability node returns: its last message is appended.
capability_node_returns(n) ==
    /\ eng.status = "running"
    /\ eng.node = n
    /\ eng.call # "idle"
    /\ call_returns
    /\ eng' = Goto(eng, "supervisor")
    /\ UNCHANGED <<cfg, inflight, reg, run, retry, prompts, api>>

\* The agent call raises e: caught by "except Exception", apology appended.
capability_node_raises(n, e) ==
    /\ eng.status = "running"
    /\ eng.node = n
    /\ eng.call # "idle"
    /\ call_raises(e)
    /\ eng' = Goto(eng, "supervisor")
    /\ UNCHANGED <<cfg, inflight, reg, run, retry, prompts, api>>

\* memory_extraction_node returns {} and the edge memory_extraction -> END ends
\* the run.
memory_extraction_node ==
    /\ CanRun("memory_extraction")
    /\ eng' = Goto(eng, END)
    /\ UNCHANGED <<cfg, cb, now, inflight, last, hist, reg, run,
                 retry, prompts, api>>

EngineNext ==
    \/ execute_agent
    \/ graph_recursion_error
    \/ memory_retrieval_node
    \/ supervisor_node_call
    \/ \E e \in Errors : supervisor_node_raises(e)
    \/ \E r \in Responses : supervisor_node_returns(r)
    \/ \E n \in CapabilityNodes : capability_node_call(n)
    \/ \E n \in CapabilityNodes : capability_node_returns(n)
    \/ \E n \in CapabilityNodes, e \in Errors : capability_node_raises(n, e)
    \/ memory_extraction_node
    \/ Tick
    \/ call(1)
    \/ func_returns(1)
    \/ \E e \in Errors : func_raises(1, e)

\* The engine is explored with the clock counted in recovery timeouts.
InitEngine == Init /\ cfg.recovery_timeout = 1

SpecEngine == InitEngine /\ [][EngineNext]_vars

\* ---------------------------------------------------------------- SpecRun
\* The same graph followed with its AgentState (messages, next, query,
\* current_reasoning, memory_context), under recursion_limit settings small
\* enough to keep the message lists short.

\* What memory_retrieval_node puts in memory_context: "" when memory is
\* disabled, empty or failing, else the prompt block.
MemoryTexts == {"", "memories"}

\* What the memory store (Mem0) raises when it cannot be reached.
MemoryErrors == {"ConnectionError"}

memory_retrieval_on_recall_propagates(m) ==
    [raised |-> IF m \in MemoryErrors THEN m ELSE "none",
     memory_text |-> IF m \in MemoryErrors THEN "" ELSE m]

\* memory_retrieval_node, lines 109-142: the outcome of its try statement
\* when the recall ended with m.  except Exception keeps memory_text = "".
memory_retrieval_on_recall(m) ==
    [raised |-> "none",
     memory_text |-> IF m \in MemoryErrors THEN "" ELSE m]

\* memory_extraction_node, lines 405-441: the outcome of its try statement
\* when store_interaction_memories ended with m.
memory_extraction_on_store(m) == [raised |-> "none"]

\* The text of a CircuitBreakerOpenError raised on admission result a, and
\* the reasoning the supervisor makes of it (line 186).
breaker_message(a) ==
    IF a = "rejected_open"
    THEN "Circuit breaker: Circuit breaker 'llm_api' is OPEN."
    ELSE "Circuit breaker: Circuit breaker 'llm_api' HALF_OPEN limit reached."

\* Mutant: a rejected supervisor routes to memory_extraction but leaves the
\* reasoning of the previous pass.
supervisor_on_rejection_silent(a) ==
    [goto |-> "memory_extraction",
     update |-> [next |-> "memory_extraction"]]

\* supervisor_node, lines 178-186: the Command returned on a rejection.
supervisor_on_rejection(a) ==
    [goto |-> "memory_extraction",
     update |-> [next |-> "memory_extraction",
                 current_reasoning |-> breaker_message(a)]]

\* supervisor_node, lines 168-170: the query of a first pass, else ''.
supervisor_query(st) ==
    IF Len(st.messages) = 1 THEN st.messages[1].content ELSE ""

\* DecisionLogger.log_routing_decision as supervisor_node calls it (lines
\* 195-201): the record written for the decision selected, before FINISH is
\* remapped.
log_routing_decision(selected, reasoning) ==
    [available_routes |-> Routes,
     selected_route |-> selected,
     reasoning |-> reasoning]

supervisor_on_decision_keeps_route(st, r) ==
    [goto |-> supervisor_goto(r),
     update |->
        IF supervisor_query(st) # ""
        THEN [next |-> IF r = "FINISH" THEN st.next ELSE r,
              query |-> supervisor_query(st),
              current_reasoning |-> "reasoning",
              messages |-> <<HumanMessage("id_number")>>]
        ELSE [next |-> IF r = "FINISH" THEN st.next ELSE r,
              current_reasoning |-> "reasoning"]]

\* supervisor_node, lines 217-230: the Command returned for the Router
\* decision r.
supervisor_on_decision(st, r) ==
    [goto |-> supervisor_goto(r),
     update |->
        IF supervisor_query(st) # ""
        THEN [next |-> supervisor_goto(r),
              query |-> supervisor_query(st),
              current_reasoning |-> "reasoning",
              messages |-> <<HumanMessage("id_number")>>]
        ELSE [next |-> supervisor_goto(r),
              current_reasoning |-> "reasoning"]]

\* Mutant: an exception of the agent call leaves the node.
node_on_exception_propagates(e) == [raised |-> e, content |-> "none"]

\* information_node / booking_node, lines 271-284: what the try statement
\* leaves in result["messages"][-1].content, and the exception that leaves
\* the node if any.
node_on_exception(e) == [raised |-> "none", content |-> "error"]

node_on_rejection(a) == [raised |-> "none", content |-> "unavailable"]

node_on_return == [raised |-> "none", content |-> "answer"]

\* information_node / booking_node, lines 299-306: the Command returned.
node_command(st, n, content) ==
    [goto |-> "supervisor",
     update |-> [messages |-> st.messages \o <<AIMessage(content, n)>>]]

\* AgentResponse of api.execute_agent (lines 278-286) for the final state.
AgentResponse(st) ==
    [response |-> IF Len(st.messages) > 0
                  THEN st.messages[Len(st.messages)].content
                  ELSE "No response generated.",
     route |-> st.next,
     reasoning |-> st.current_reasoning]

\* The graph applies a Command and moves to its goto; at END graph.invoke
\* returns the state and execute_agent answers with it.
RunGoto(r, cmd) ==
    LET st1 == ApplyUpdate(r.st, cmd.update)
    IN  [r EXCEPT !.st = st1,
                  !.prev = r.node,
                  !.node = cmd.goto,
                  !.steps = r.steps + 1,
                  !.call = "idle",
                  !.status = IF cmd.goto = END THEN "returned" ELSE "running",
                  !.response = IF cmd.goto = END THEN AgentResponse(st1)
                               ELSE "none"]

\* An exception leaves graph.invoke: execute_agent answers HTTP 500.
RunFail(r, e) == [r EXCEPT !.call = "idle", !.status = "failed", !.error = e]

RunCanRun(n) ==
    /\ run.status = "running"
    /\ run.node = n
    /\ run.steps < run.recursion_limit

run_execute_agent ==
    /\ run.status # "running"
    /\ \E l \in RecursionLimits, m \in UserMessages :
         run' = [NoRun EXCEPT !.st.messages =
                                 add_messages(<<>>, <<HumanMessage(m)>>),
                              !.node = "memory_retrieval",
                              !.prev = "__start__",
                              !.status = "running",
                              !.recursion_limit = l]
    /\ UNCHANGED <<cfg, cb, now, inflight, last, hist, eng, reg,
                 retry, prompts, api>>

run_graph_recursion_error ==
    /\ run.status = "running"
    /\ run.steps >= run.recursion_limit
    /\ run' = RunFail(run, "GraphRecursionError")
    /\ UNCHANGED <<cfg, cb, now, inflight, last, hist, eng, reg,
                 retry, prompts, api>>

\* What build_memory_context / to_prompt_block end with: a prompt block, or an
\* exception of the memory store.
Recalls == MemoryTexts \cup MemoryErrors

run_memory_retrieval_node ==
    /\ RunCanRun("memory_retrieval")
    /\ \E m \in Recalls :
         LET o == memory_retrieval_on_recall(m)
         IN  run' = IF o.raised = "none"
                    THEN [RunGoto(run, [goto |-> "supervisor",
                                        update |-> [memory_context |->
                                                      o.memory_text]])
                             EXCEPT !.recall = m]
                    ELSE [RunFail(run, o.raised) EXCEPT !.recall = m]
    /\ UNCHANGED <<cfg, cb, now, inflight, last, hist, eng, reg,
                 retry, prompts, api>>

run_supervisor_node_call ==
    /\ RunCanRun("supervisor")
    /\ run.call = "idle"
    /\ \E a \in Admissions :
         /\ call_locked(a)
         /\ run' = IF a \in {"probe", "closed"}
                   THEN [run EXCEPT !.call = a]
                   ELSE [RunGoto(run, supervisor_on_rejection(a)) EXCEPT
                            !.decision = "rejected", !.passes = @ + 1]
    /\ UNCHANGED <<cfg, inflight, eng, reg, retry, prompts, api>>

run_supervisor_node_returns(r) ==
    /\ run.status = "running"
    /\ run.node = "supervisor"
    /\ run.call # "idle"
    /\ call_returns
    /\ run' = IF r \in Routes
              THEN [RunGoto(run, supervisor_on_decision(run.st, r)) EXCEPT
                       !.decision = r,
                       !.passes = @ + 1,
                       !.records = @ + 1,
                       !.record = log_routing_decision(r, "reasoning")]
              ELSE [RunFail(run, "KeyError") EXCEPT !.decision = r,
                                                    !.passes = @ + 1]
    /\ UNCHANGED <<cfg, inflight, eng, reg, retry, prompts, api>>

run_supervisor_node_raises(e) ==
    /\ run.status = "running"
    /\ run.node = "supervisor"
    /\ run.call # "idle"
    /\ call_raises(e)
    /\ run' = [RunFail(run, e) EXCEPT !.passes = @ + 1]
    /\ UNCHANGED <<cfg, inflight, eng, reg, retry, prompts, api>>

\* A capability node ends with the outcome o of its try statement.
run_node_ends(n, o) ==
    run' = IF o.raised = "none"
           THEN RunGoto(run, node_command(run.st, n, o.content))
           ELSE RunFail(run, o.raised)

run_capability_node_call(n) ==
    /\ RunCanRun(n)
    /\ run.call = "idle"
    /\ \E a \in Admissions :
         /\ call_locked(a)
         /\ IF a \in {"probe", "closed"}
            THEN run' = [run EXCEPT !.call = a]
            ELSE run_node_ends(n, node_on_rejection(a))
    /\ UNCHANGED <<cfg, inflight, eng, reg, retry, prompts, api>>

run_capability_node_returns(n) ==
    /\ run.status = "running"
    /\ run.node = n
    /\ run.call # "idle"
    /\ call_returns
    /\ run_node_ends(n, node_on_return)
    /\ UNCHANGED <<cfg, inflight, eng, reg, retry, prompts, api>>

run_capability_node_raises(n, e) ==
    /\ run.status = "running"
    /\ run.node = n
    /\ run.call # "idle"
    /\ call_raises(e)
    /\ run_node_ends(n, node_on_exception(e))
    /\ UNCHANGED <<cfg, inflight, eng, reg, retry, prompts, api>>

\* What store_interaction_memories ends with.
Stores == {"stored"} \cup MemoryErrors

run_memory_extraction_node ==
    /\ RunCanRun("memory_extraction")
    /\ \E m \in Stores :
         LET o == memory_extraction_on_store(m)
         IN  run' = IF o.raised = "none"
                    THEN [RunGoto(run, [goto |-> END,
                                        update |-> [k \in {} |-> ""]])
                             EXCEPT !.extractions = @ + 1, !.extract = m]
                    ELSE [RunFail(run, o.raised) EXCEPT !.extract = m]
    /\ UNCHANGED <<cfg, cb, now, inflight, last, hist, eng, reg,
                 retry, prompts, api>>

RunNext ==
    \/ run_execute_agent
    \/ run_graph_recursion_error
    \/ run_memory_retrieval_node
    \/ run_supervisor_node_call
    \/ \E e \in Errors : run_supervisor_node_raises(e)
    \/ \E r \in Responses : run_supervisor_node_returns(r)
    \/ \E n \in CapabilityNodes : run_capability_node_call(n)
    \/ \E n \in CapabilityNodes : run_capability_node_returns(n)
    \/ \E n \in CapabilityNodes, e \in Errors : run_capability_node_raises(n, e)
    \/ run_memory_extraction_node
    \/ Tick
    \/ call(1)
    \/ func_returns(1)
    \/ \E e \in Errors : func_raises(1, e)

\* The requests of SpecRun meet a breaker that opens on one failure, recovers
\* after one time unit and admits one probe.
InitRun ==
    /\ Init
    /\ cfg.failure_threshold = 1
    /\ cfg.recovery_timeout = 1
    /\ cfg.half_open_max_calls = 1

SpecRun == InitRun /\ [][RunNext]_vars

\* -------------------------------------------------- SpecSinks: failing sinks
\* SpecSinks is SpecRun with an audit trail and a decision log whose file
\* append can fail.  AuditLogger.log_event and DecisionLogger._write_decision
\* open the log file and write one line with no try statement around it, and
\* no call site in appointment_agent.py or circuit_breaker.py catches what
\* they raise.  MetricsCollector.record_agent_execution only updates counters
\* in memory and has no failing outcome.

SinkErrors == {"OSError"}

\* What a handler hands on after a log_event / log_routing_decision call that
\* ended with the sink error s, when it would have handed on k otherwise: the
\* sink's exception leaves the handler in place of k.
log_event_raises(s, k) == [kind |-> "raised", error |-> s]

\* func raised e in thread t, and the audit call of _on_failure (lines
\* 131-141, or of _transition_to, lines 160-170) then raises s inside the
\* except clause of CircuitBreaker.call: the counters are already updated and
\* s leaves call in place of e.
func_raises_audit_fails(t, e, s) ==
    /\ inflight[t] # "idle"
    /\ lock_holders(inflight) \subseteq {t}
    /\ cb' = on_failure(cb, cfg, now)
    /\ last' = Event("raise", cb,
                     log_event_raises(s, call_on_exception(e)).kind,
                     log_event_raises(s, call_on_exception(e)).error, 0, e)
    /\ hist' = Observe(hist, cb.state, cb'.state, "failure")
    /\ now' = now
    /\ inflight' = [inflight EXCEPT ![t] = "idle"]
    /\ UNCHANGED <<cfg, eng, reg, run, retry, prompts, api>>

\* func returned in thread t with the last success the half-open window
\* needed, and the audit call of _transition_to(CLOSED) raises s: the breaker
\* is CLOSED and s leaves call in place of the result.
func_returns_audit_fails(t, s) ==
    /\ inflight[t] # "idle"
    /\ lock_holders(inflight) \subseteq {t}
    /\ cb.state = HALF_OPEN
    /\ on_success(cb, cfg).state = CLOSED
    /\ cb' = on_success(cb, cfg)
    /\ last' = Event("return", cb, log_event_raises(s, call_on_return).kind,
                     log_event_raises(s, call_on_return).error, 0, "none")
    /\ hist' = Observe(hist, cb.state, cb'.state, "success")
    /\ now' = now
    /\ inflight' = [inflight EXCEPT ![t] = "idle"]
    /\ UNCHANGED <<cfg, eng, reg, run, retry, prompts, api>>

\* The supervisor's completion returned the route r and the decision log
\* (lines 195-201) or the audit trail (lines 210-215) raises s: s leaves
\* supervisor_node and graph.invoke.
run_supervisor_node_sink_fails(r, s) ==
    /\ run.status = "running"
    /\ run.node = "supervisor"
    /\ run.call # "idle"
    /\ call_returns
    /\ run' = [RunFail(run, s) EXCEPT !.decision = r, !.passes = @ + 1]
    /\ UNCHANGED <<cfg, inflight, eng, reg, retry, prompts, api>>

\* The try statement of capability node n ended with the outcome o and the
\* audit call after it (information_node lines 292-297, booking_node
\* likewise) raises s: s leaves the node and graph.invoke.
run_capability_node_sink_fails(n, s) ==
    /\ run.status = "running"
    /\ run.node = n
    /\ run.call # "idle"
    /\ \/ call_returns
       \/ \E e \in Errors : call_raises(e)
    /\ run' = RunFail(run, s)
    /\ UNCHANGED <<cfg, inflight, eng, reg, retry, prompts, api>>

SinksNext ==
    \/ RunNext
    \/ \E e \in Errors, s \in SinkErrors : func_raises_audit_fails(1, e, s)
    \/ \E s \in SinkErrors : func_returns_audit_fails(1, s)
    \/ \E r \in Routes, s \in SinkErrors : run_supervisor_node_sink_fails(r, s)
    \/ \E n \in CapabilityNodes, s \in SinkErrors :
         run_capability_node_sink_fails(n, s)

SpecSinks == InitRun /\ [][SinksNext]_vars

\* ---------------------------------------------------------------- SpecRetry
\* A function is decorated by retry_with_backoff and one caller at a time
\* goes through the wrapper; the wrapped function returns or raises on every
\* invocation.

\* retry_with_backoff(config) decorates func: the wrapper keeps config.
retry_with_backoff ==
    /\ retry.pc = "idle"
    /\ \E c \in RetryConfigs :
         retry' = [NoRetry EXCEPT !.cfg = c, !.pc = "decorated"]
    /\ UNCHANGED <<cfg, cb, now, inflight, last, hist, eng, reg, run, prompts, api>>

\* wrapper is called: the for loop starts with attempt = 1.
retry_wrapper_call ==
    /\ retry.pc \in {"decorated", "returned", "raised"}
    /\ retry' = [NoRetry EXCEPT !.cfg = retry.cfg, !.pc = "calling",
                                !.attempt = 1]
    /\ UNCHANGED <<cfg, cb, now, inflight, last, hist, eng, reg, run, prompts, api>>

\* func returns: line 62 returns its result.
retry_func_returns ==
    /\ retry.pc = "calling"
    /\ retry' = [retry EXCEPT !.pc = "returned", !.calls = @ + 1]
    /\ UNCHANGED <<cfg, cb, now, inflight, last, hist, eng, reg, run, prompts, api>>

\* func raises e (lines 63-93); r is the value random.random() would give.
retry_func_raises(e, r) ==
    /\ retry.pc = "calling"
    /\ LET c == retry.cfg
           called == [retry EXCEPT !.calls = @ + 1,
                                   !.errors = Append(@, e)]
           slept == [called EXCEPT
                        !.sleeps = Append(@, jittered(c,
                                       backoff_delay(c, retry.attempt), r))]
       IN  retry' =
             IF ~is_retryable(c, e) \/ retry_exhausted(c, retry.attempt)
             THEN [called EXCEPT !.pc = "raised", !.error = e]
             ELSE IF retry.attempt = c.max_attempts
                  THEN [slept EXCEPT !.pc = "raised", !.error = e]
                  ELSE [slept EXCEPT !.attempt = @ + 1]
    /\ UNCHANGED <<cfg, cb, now, inflight, last, hist, eng, reg, run, prompts, api>>

RetryNext ==
    \/ retry_with_backoff
    \/ retry_wrapper_call
    \/ retry_func_returns
    \/ \E e \in RetryErrors, r \in RandomValues : retry_func_raises(e, r)

InitRetry ==
    /\ Init
    /\ cfg.failure_threshold = 1
    /\ cfg.recovery_timeout = 1
    /\ cfg.half_open_max_calls = 1

SpecRetry == InitRetry /\ [][RetryNext]_vars

\* -------------------------------------------------------------- SpecPrompts
\* Callers of one PromptRegistry; every operation runs under the registry's
\* lock, so operations follow one another.

PromptDone(n, vs, op, version, raised) ==
    prompts' = [versions |-> [prompts.versions EXCEPT ![n] = vs],
                op |-> op, name |-> n, version |-> version,
                raised |-> raised]

\* register(name=n, auto_activate=auto_activate)
prompt_register(n, auto_activate) ==
    /\ Len(prompts.versions[n]) < MaxVersions
    /\ \E io \in PersistResults :
         PromptDone(n, register_versions(prompts.versions[n], auto_activate),
                    "register", Len(prompts.versions[n]) + 1, io)
    /\ UNCHANGED <<cfg, cb, now, inflight, last, hist, eng, reg, run, retry, api>>

\* activate(n, version): without a target ValueError is raised after the
\* loop has run.
prompt_activate(n, version) ==
    /\ \E io \in PersistResults :
         PromptDone(n, activate_versions(prompts.versions[n], version),
                    "activate", version,
                    IF has_version(prompts.versions[n], version)
                    THEN io ELSE "ValueError")
    /\ UNCHANGED <<cfg, cb, now, inflight, last, hist, eng, reg, run, retry, api>>

\* deprecate(n, version): _get_version raises ValueError before any change.
prompt_deprecate(n, version) ==
    /\ \E io \in PersistResults :
         IF has_version(prompts.versions[n], version)
         THEN PromptDone(n, deprecate_versions(prompts.versions[n], version),
                         "deprecate", version, io)
         ELSE PromptDone(n, prompts.versions[n], "deprecate", version,
                         "ValueError")
    /\ UNCHANGED <<cfg, cb, now, inflight, last, hist, eng, reg, run, retry, api>>

PromptsNext ==
    \/ \E n \in PromptNames, a \in BOOLEAN : prompt_register(n, a)
    \/ \E n \in PromptNames, v \in 1..MaxVersions : prompt_activate(n, v)
    \/ \E n \in PromptNames, v \in 1..MaxVersions : prompt_deprecate(n, v)

InitPrompts ==
    /\ Init
    /\ cfg.failure_threshold = 1
    /\ cfg.recovery_timeout = 1
    /\ cfg.half_open_max_calls = 1

SpecPrompts == InitPrompts /\ [][PromptsNext]_vars

\* ------------------------------------- specification of api._ensure_agent

\* execute_agent is a plain def, so each request runs _ensure_agent on a
\* worker thread of the server's pool; the function takes no lock, and a
\* thread can be preempted between any two of its statements.

\* A request reaches "graph = _ensure_agent()".
ensure_agent_call(t) ==
    /\ api.pc[t] = "idle"
    /\ api' = [api EXCEPT !.pc[t] = "test", !.returned[t] = FALSE,
                          !.response[t] = "none"]
    /\ UNCHANGED <<cfg, cb, now, inflight, last, hist, eng, reg, run,
                   retry, prompts>>

\* "if agent is None:".
ensure_agent_test(t) ==
    /\ api.pc[t] = "test"
    /\ api' = [api EXCEPT
                 !.pc[t] = IF api.agent = None THEN "construct" ELSE "return"]
    /\ UNCHANGED <<cfg, cb, now, inflight, last, hist, eng, reg, run,
                   retry, prompts>>

\* "agent = DoctorAppointmentAgent()".
ensure_agent_construct(t) ==
    /\ api.pc[t] = "construct"
    /\ api' = [api EXCEPT !.agent = api.constructions + 1,
                          !.constructions = @ + 1,
                          !.pc[t] = "workflow"]
    /\ UNCHANGED <<cfg, cb, now, inflight, last, hist, eng, reg, run,
                   retry, prompts>>

\* "app_graph = agent.workflow()": the graph of whichever agent the global
\* names when the statement runs.
ensure_agent_workflow(t) ==
    /\ api.pc[t] = "workflow"
    /\ api' = [api EXCEPT !.app_graph = api.agent, !.pc[t] = "return"]
    /\ UNCHANGED <<cfg, cb, now, inflight, last, hist, eng, reg, run,
                   retry, prompts>>

\* "return app_graph".
ensure_agent_return(t) ==
    /\ api.pc[t] = "return"
    /\ api' = [api EXCEPT !.result[t] = api.app_graph,
                          !.returned[t] = TRUE,
                          !.pc[t] = "invoke"]
    /\ UNCHANGED <<cfg, cb, now, inflight, last, hist, eng, reg, run,
                   retry, prompts>>

\* "response = graph.invoke(query_data, config=lc_config)" in execute_agent:
\* None has no invoke, the AttributeError is caught by "except Exception"
\* and the request is answered with HTTP 500.
execute_agent_invoke(t) ==
    /\ api.pc[t] = "invoke"
    /\ api' = [api EXCEPT
                 !.response[t] = IF api.result[t] = None
                                 THEN "http_500" ELSE "ok",
                 !.pc[t] = "idle"]
    /\ UNCHANGED <<cfg, cb, now, inflight, last, hist, eng, reg, run,
                   retry, prompts>>

EnsureNext ==
    \/ \E t \in Threads : ensure_agent_call(t)
    \/ \E t \in Threads : ensure_agent_test(t)
    \/ \E t \in Threads : ensure_agent_construct(t)
    \/ \E t \in Threads : ensure_agent_workflow(t)
    \/ \E t \in Threads : ensure_agent_return(t)
    \/ \E t \in Threads : execute_agent_invoke(t)

InitEnsure ==
    /\ Init
    /\ cfg.failure_threshold = 1
    /\ cfg.recovery_timeout = 1
    /\ cfg.half_open_max_calls = 1

SpecEnsure == InitEnsure /\ [][EnsureNext]_vars

\* ----------------------------------------------------------------- claims

ProbesInFlight == Cardinality({t \in Threads : inflight[t] = "probe"})
Accesses == {"call", "state", "get_status"}
Elapsed == now - cb.last_failure_time

\* C1 (SpecEngine): every request either reaches Done within the step limit
\* or is aborted with the step-limit failure (GraphRecursionError); no run
\* takes more than RecursionLimit steps and no other failure ends a request.
C1_DoneOrStepLimitExceeded ==
    /\ eng.steps <= RecursionLimit
    /\ (eng.status = "returned" => eng.node = END)
    /\ (eng.status = "failed" => eng.error = "GraphRecursionError")

C3_OpensAtThreshold ==
    [][(last'.op = "raise" /\ cb.state = CLOSED)
        => /\ (cb'.state = OPEN <=> hist.consec + 1 >= cfg.failure_threshold)
           /\ (cb'.state # OPEN => cb'.state = CLOSED)]_vars

C3_Witness ==
    /\ last.op = "raise"
    /\ last.pre = CLOSED
    /\ cb.state = OPEN
    /\ cfg.failure_threshold = DefaultFailureThreshold
    /\ cb.failure_count = DefaultFailureThreshold

C5_LazyHalfOpen ==
    [][/\ (cb.state = OPEN /\ cb'.state = HALF_OPEN)
            => /\ last'.op \in Accesses
               /\ Elapsed >= cfg.recovery_timeout
               /\ cb'.success_count = 0
               /\ cb'.half_open_calls = IF last'.op = "call" THEN 1 ELSE 0
       /\ (cb.state = OPEN /\ last'.op \in Accesses)
            => (cb'.state = HALF_OPEN <=> Elapsed >= cfg.recovery_timeout)
       /\ (cb.state = OPEN /\ last'.op \in Accesses
                /\ Elapsed < cfg.recovery_timeout)
            => cb'.state = OPEN]_vars

C5_Witness ==
    /\ last.op = "state"
    /\ last.pre = OPEN
    /\ cb.state = HALF_OPEN
    /\ cb.half_open_calls = 0
    /\ cb.success_count = 0

\* C6, as claimed (Spec): a call is admitted in HALF_OPEN only if fewer than
\* half_open_max_calls probes are in flight (admitted and not yet completed).
C6_FewerProbesInFlight ==
    [][(last'.op = "call" /\ last'.res = "probe")
        => ProbesInFlight < cfg.half_open_max_calls]_vars

\* C6, amended (Spec): a call that finds the breaker HALF_OPEN is admitted
\* exactly when fewer than half_open_max_calls calls were admitted since
\* HALF_OPEN was last entered, completed or not; otherwise it raises
\* CircuitBreakerOpenError and starts no wrapped operation. At most
\* half_open_max_calls calls are admitted per half-open window.
C6_ProbesPerWindow ==
    [][(last'.op = "call" /\ cb'.state = HALF_OPEN)
        => LET before == IF cb.state = HALF_OPEN THEN hist.window_admitted ELSE 0
           IN  /\ (last'.res = "probe" <=> before < cfg.half_open_max_calls)
               /\ (last'.res # "probe"
                     => /\ last'.res = "rejected_half_open"
                        /\ last'.error = CircuitBreakerOpenError
                        /\ inflight' = inflight)
               /\ hist'.window_admitted <= cfg.half_open_max_calls]_vars

C6_Witness ==
    /\ last.op = "call"
    /\ last.res = "rejected_half_open"
    /\ cb.state = HALF_OPEN
    /\ cfg.half_open_max_calls = 2
    /\ hist.window_admitted = 2
    /\ ProbesInFlight = 1

\* C7 (Spec): a success recorded in HALF_OPEN closes the breaker exactly when
\* it is the half_open_max_calls-th success recorded since HALF_OPEN was
\* entered; nothing but such a success (or reset) takes HALF_OPEN to CLOSED,
\* and on closing failure_count, success_count and half_open_calls are zero.
C7_ClosesAfterMaxSuccesses ==
    [][/\ (last'.op = "return" /\ cb.state = HALF_OPEN)
            => /\ (cb'.state = CLOSED
                     <=> hist.window_successes + 1 = cfg.half_open_max_calls)
               /\ (cb'.state # CLOSED => cb'.state = HALF_OPEN)
       /\ (cb.state = HALF_OPEN /\ cb'.state = CLOSED)
            => /\ last'.op \in {"return", "reset"}
               /\ cb'.failure_count = 0
               /\ cb'.success_count = 0
               /\ cb'.half_open_calls = 0]_vars

C7_Witness ==
    /\ last.op = "return"
    /\ last.pre = HALF_OPEN
    /\ cb.state = CLOSED
    /\ cfg.half_open_max_calls = 2
    /\ cb.failure_count = 0
    /\ cb.success_count = 0
    /\ cb.half_open_calls = 0

\* C8 (Spec): a failure recorded in HALF_OPEN opens the breaker whatever
\* success_count is, with last_failure_time set to the time of that failure;
\* the breaker it leaves rejects a call made at any time before
\* recovery_timeout has elapsed from that failure, and not at that time.
C8_HalfOpenFailureOpens ==
    [][(last'.op = "raise" /\ cb.state = HALF_OPEN)
        => /\ cb'.state = OPEN
           /\ cb'.last_failure_time = now
           /\ \A d \in 0..cfg.recovery_timeout :
                (admission(check_state_transition(cb', cfg, now + d), cfg)
                     = "rejected_open")
                <=> d < cfg.recovery_timeout]_vars

C8_Witness ==
    /\ last.op = "raise"
    /\ last.pre = HALF_OPEN
    /\ cb.state = OPEN
    /\ cb.success_count = 1
    /\ cb.last_failure_time = now

\* C9 (Spec): a success recorded while CLOSED sets failure_count to zero and
\* keeps the breaker CLOSED; while CLOSED failure_count is the number of
\* failures in a row since the last success and stays below the threshold.
C9_SuccessResetsFailures ==
    /\ [](cb.state = CLOSED
            => /\ cb.failure_count = hist.consec
               /\ cb.failure_count < cfg.failure_threshold)
    /\ [][(last'.op = "return" /\ cb.state = CLOSED)
            => /\ cb'.failure_count = 0
               /\ cb'.state = CLOSED]_vars

C9_Witness ==
    /\ last.op = "return"
    /\ last.pre = CLOSED
    /\ last.fc > 0
    /\ cb.state = CLOSED
    /\ cb.failure_count = 0

C11_CallsOverlap ==
    /\ [](\A t \in Threads : inflight[t] = "idle" => ENABLED call(t))
    /\ [][(last'.op = "call")
            => /\ last'.res
                    = admission(check_state_transition(cb, cfg, now), cfg)
               /\ \A u \in Threads :
                    inflight[u] # "idle" => inflight'[u] = inflight[u]]_vars
    /\ [][(last'.op \in {"raise", "return"})
            => Cardinality({u \in Threads : inflight'[u] # inflight[u]}) = 1]_vars
    /\ [][(last'.op = "raise")
            => cb'.failure_count = cb.failure_count + 1]_vars
    /\ [][(last'.op = "return" /\ cb.state = HALF_OPEN)
            => cb'.success_count \in {cb.success_count + 1, 0}]_vars

\* Two wrapped operations run at once, the second admitted while the first
\* was running, after a failure both of them will add to.
C11_Witness ==
    /\ last.op = "call"
    /\ last.res = "closed"
    /\ \A t \in Threads : inflight[t] # "idle"
    /\ cb.failure_count > 0


\* C12 (SpecRegistry): for each name the constructor runs at most once and
\* every call of get_circuit_breaker for that name, by any thread, returns
\* that one instance, which stays the one stored in _breakers.
C12_OneInstancePerName ==
    \A n \in BreakerNames :
        /\ reg.made[n] <= 1
        /\ reg.breakers[n] = reg.made[n]
        /\ reg.handed[n] \subseteq {1}
        /\ \A t \in Threads :
             (reg.pc[t] = "idle" /\ reg.name[t] = n) => reg.got[t] = 1

\* Two threads asked for a name at the same time before it was created and
\* both were handed the same instance.
C12_Witness ==
    /\ reg.raced
    /\ \E t, u \in Threads :
         /\ t # u
         /\ reg.pc[t] = "idle" /\ reg.pc[u] = "idle"
         /\ reg.name[t] = "llm_api" /\ reg.name[u] = "llm_api"
         /\ reg.got[t] = 1 /\ reg.got[u] = 1
    /\ reg.made["llm_api"] = 1
    /\ reg.made["db"] = 0

\* C13 (Spec): reset, from any state and whatever calls are running, leaves
\* the breaker CLOSED with failure_count, success_count and half_open_calls
\* zero and leaves the running calls alone; the breaker it leaves admits a
\* call made at any later time, and a call that comes next is admitted.
C13_ResetCloses ==
    /\ [][(last'.op = "reset")
            => /\ cb'.state = CLOSED
               /\ cb'.failure_count = 0
               /\ cb'.success_count = 0
               /\ cb'.half_open_calls = 0
               /\ inflight' = inflight
               /\ \A t \in now..MaxTime :
                    admission(check_state_transition(cb', cfg, t), cfg)
                        = "closed"]_vars
    /\ [][(last.op = "reset" /\ last'.op = "call")
            => /\ last'.res = "closed"
               /\ last'.error = "none"
               /\ \E t \in Threads :
                    inflight[t] = "idle" /\ inflight'[t] = "closed"]_vars
    /\ [](ENABLED reset)

\* The breaker was reset while HALF_OPEN with a probe running and failures
\* counted, and the next call was admitted.
C13_Witness ==
    /\ last.op = "call"
    /\ last.res = "closed"
    /\ cb = [NewBreaker EXCEPT !.last_failure_time = cb.last_failure_time]
    /\ cb.last_failure_time > 0
    /\ \E t \in Threads : inflight[t] = "probe"
    /\ \E t \in Threads : inflight[t] = "closed"

LastMessage(st) == st.messages[Len(st.messages)]

\* A capability node that was able to run returns in this step.
NodePassEnds ==
    /\ run.status = "running"
    /\ run.node \in CapabilityNodes
    /\ run.steps < run.recursion_limit
    /\ run' # run
    /\ run'.call = "idle"

IsPrefix(s1, s2) ==
    /\ Len(s1) <= Len(s2)
    /\ SubSeq(s2, 1, Len(s1)) = s1

Rejections == {"rejected_open", "rejected_half_open"}

\* The breaker rejects the supervisor's decision call in this step.
SupervisorRejected ==
    /\ run.status = "running"
    /\ run.node = "supervisor"
    /\ run.call = "idle"
    /\ run.steps < run.recursion_limit
    /\ run' # run
    /\ run'.call = "idle"

\* What C16 says of the rejection itself: the supervisor returns goto
\* memory_extraction with next = memory_extraction and the rejection message
\* as reasoning, and the completion service is not invoked (no call is
\* started, no outcome is recorded in the breaker).
RejectionForcesTerminate ==
    [][SupervisorRejected
        => /\ last'.op = "call"
           /\ last'.res \in Rejections
           /\ run'.status = "running"
           /\ run'.node = "memory_extraction"
           /\ run'.st.next = "memory_extraction"
           /\ run'.st.current_reasoning = breaker_message(last'.res)
           /\ run'.st.messages = run.st.messages
           /\ run'.call = "idle"
           /\ inflight' = inflight
           /\ cb' = check_state_transition(cb, cfg, now)]_vars

C17_InvalidNextForcesTerminate ==
    run.decision = "invalid"
        => /\ run.status \in {"running", "returned"}
           /\ run.error = "none"
           /\ run.st.next = "memory_extraction"
           /\ run.node \in {"memory_extraction", END}

\* C18, as claimed (SpecRun): a request that has finished, with a response or
\* with a failure, has passed through memory_extraction exactly once. The
\* request aborted by the step limit is left out: it is the one failure the
\* specification lets end a request early.
C18_ExtractionExactlyOnce ==
    /\ run.extractions <= 1
    /\ (run.status = "returned" => run.extractions = 1)
    /\ (run.status = "failed" /\ run.error # "GraphRecursionError"
            => run.extractions = 1)

\* C19, as claimed (SpecRun): a request fails only with the step-limit
\* error; every other request that has ended has a response with its final
\* message, last route and last reasoning.
C19_OnlyStepLimitFails ==
    /\ (run.status = "failed" => run.error = "GraphRecursionError")
    /\ (run.status = "returned"
            => /\ run.response # "none"
               /\ run.response.response = LastMessage(run.st).content
               /\ run.response.route = run.st.next
               /\ run.response.reasoning = run.st.current_reasoning)

DegradedContents == {"unavailable", "error"}

\* A breaker rejection or a failure of the completion service has happened
\* to the request, at the supervisor or at a capability node.
DependencyFailed ==
    \/ run.decision = "rejected"
    \/ \E i \in 1..Len(run.st.messages) :
         run.st.messages[i].content \in DegradedContents
    \/ (run.status = "failed" /\ run.error \in Errors)

\* C20, as claimed (SpecRun): the response of a request to which a breaker
\* rejection or a completion-service failure happened carries, as its final
\* message, one of the degraded assistant messages. Requests that ended with
\* an error instead of a response (C19) are left out.
C20_DegradedFinalMessage ==
    (run.status = "returned" /\ DependencyFailed)
        => /\ LastMessage(run.st).type = "ai"
           /\ run.response.response \in DegradedContents

\* C21 (SpecSinks): an error raised by the audit trail or the decision log
\* never affects primary control flow: CircuitBreaker.call still re-raises
\* the original error of func or returns its result, and no sink error ends a
\* request.  The code does not guard its sink calls: the formula is violated.
C21_SinkFailuresIgnored ==
    /\ (last.op = "raise" => last.error = last.raised)
    /\ (last.op = "return" => last.res = "returned")
    /\ run.error \notin SinkErrors

\* C22 (SpecRun): a failure of the memory collaborator never aborts a
\* request.  A failed recall in memory_retrieval leaves memory_context empty
\* and passes control to the supervisor; a failed store in memory_extraction
\* still ends the request as returned, with the messages, route and reasoning
\* the state held before the node ran; no request ends with a memory error.
C22_MemoryFailuresTolerated ==
    /\ [][(/\ run.status = "running"
           /\ run.node = "memory_retrieval"
           /\ run' # run
           /\ run'.recall \in MemoryErrors)
          => (/\ run'.status = "running"
              /\ run'.node = "supervisor"
              /\ run'.st.memory_context = ""
              /\ run'.error = "none")]_vars
    /\ [][(/\ run.status = "running"
           /\ run.node = "memory_extraction"
           /\ run' # run
           /\ run'.extract \in MemoryErrors)
          => (/\ run'.status = "returned"
              /\ run'.st = run.st
              /\ run'.response = AgentResponse(run.st)
              /\ run'.error = "none")]_vars
    /\ [](run.error \notin MemoryErrors)

\* A request whose recall and store both failed has returned an answer after
\* a capability pass.
C22_Witness ==
    /\ run.status = "returned"
    /\ run.recall \in MemoryErrors
    /\ run.extract \in MemoryErrors
    /\ run.st.memory_context = ""
    /\ Len(run.st.messages) = 3

\* A returned request in which the supervisor routed once to a capability
\* node and then decided FINISH: memory_retrieval, supervisor, the node,
\* supervisor, memory_extraction.
OneCapabilityPassThenTerminate ==
    /\ run.status = "returned"
    /\ run.steps = 5
    /\ run.decision = "FINISH"

\* C23 as stated (SpecRun): in such a request the route of the final result
\* is the capability route chosen on the penultimate supervisor pass.  The
\* terminating pass overwrites next: the formula is violated.
C23_FinalRouteIsCapabilityRoute ==
    OneCapabilityPassThenTerminate
        => run.response.route = LastMessage(run.st).name

\* C23 (SpecRun), amended: in such a request the route of the final result
\* is the one the terminating supervisor pass wrote, the remapped terminate
\* route memory_extraction, and not the capability route of the pass before.
C23_FinalRouteIsTerminateRoute ==
    OneCapabilityPassThenTerminate
        => /\ run.response.route = "memory_extraction"
           /\ run.response.route = run.st.next
           /\ run.response.route # LastMessage(run.st).name

\* The booking scenario: one booking pass, then FINISH.
C23_Witness ==
    /\ OneCapabilityPassThenTerminate
    /\ LastMessage(run.st).name = "booking_node"
    /\ run.response.route = "memory_extraction"

\* C24 (SpecRun): in a request where the supervisor routes once to a
\* capability node and then decides FINISH, the final messages are the
\* initial one plus exactly two: the user message the first supervisor pass
\* adds and the assistant message of the capability node; no message occurs
\* twice.  A first pass over an empty query adds no user message: the formula
\* is violated.
C24_TwoMessagesAdded ==
    OneCapabilityPassThenTerminate
        => LET ms == run.st.messages
               n0 == Len(query_data.messages)
           IN  /\ Len(ms) = n0 + 2
               /\ ms[n0].type = "human"
               /\ ms[n0 + 1].type = "human"
               /\ ms[n0 + 1].content = "id_number"
               /\ ms[n0 + 2].type = "ai"
               /\ ms[n0 + 2].name \in CapabilityNodes
               /\ \A i, j \in 1..Len(ms) : i # j => ms[i] # ms[j]

\* C29 (SpecPrompts): at most one version of a prompt name is ACTIVE, after
\* any sequence of register (with or without auto_activate), activate and
\* deprecate.
C29_AtMostOneActive ==
    \A n \in PromptNames :
        Cardinality({i \in 1..Len(prompts.versions[n]) :
                        prompts.versions[n][i].status = ACTIVE}) <= 1

\* An older version was activated while a newer one, registered with
\* auto_activate, was ACTIVE: the newer one is DEPRECATED now.
C29_Witness ==
    \E n \in PromptNames :
        /\ prompts.op = "activate"
        /\ prompts.name = n
        /\ prompts.raised = "none"
        /\ Len(prompts.versions[n]) = 3
        /\ prompts.versions[n][1].status = ACTIVE
        /\ prompts.versions[n][2].status = DRAFT
        /\ prompts.versions[n][3].status = DEPRECATED

\* The wrapped call has ended by raising and every error func raised was
\* selected by retryable_exceptions.
PersistentlyFailing ==
    /\ retry.pc = "raised"
    /\ \A i \in 1..Len(retry.errors) :
          retry.errors[i] \in retry.cfg.retryable_exceptions

\* C25 (SpecRetry): for a persistently failing retryable operation the
\* wrapper invokes it exactly max_attempts times, sleeps exactly
\* max_attempts - 1 times (never after the final attempt) and re-raises the
\* error of the final attempt unchanged.
C25_ExhaustedAfterMaxAttempts ==
    /\ Len(retry.sleeps) <= Max(retry.cfg.max_attempts - 1, 0)
    /\ retry.calls <= retry.cfg.max_attempts
    /\ PersistentlyFailing
          => /\ retry.calls = retry.cfg.max_attempts
             /\ Len(retry.errors) = retry.cfg.max_attempts
             /\ Len(retry.sleeps) = retry.cfg.max_attempts - 1
             /\ retry.error = retry.errors[retry.cfg.max_attempts]

\* Three attempts have failed, the last with another error than the first.
C25_Witness ==
    /\ PersistentlyFailing
    /\ retry.cfg.max_attempts = 3
    /\ retry.errors = <<"APIError", "APIError", "ValueError">>
    /\ retry.error = "ValueError"
    /\ Len(retry.sleeps) = 2

\* C26 (SpecRetry): with jitter disabled the delay after the k-th failed
\* attempt is exactly min(base_delay * exponential_base^(k-1), max_delay), so
\* no delay exceeds max_delay; with max_attempts = 3, base_delay = 1 and
\* exponential_base = 2 a persistently failing call sleeps exactly 1, then 2.
C26_BackoffWithoutJitter ==
    ~retry.cfg.jitter
        => /\ \A k \in 1..Len(retry.sleeps) :
                /\ k < retry.cfg.max_attempts
                /\ retry.sleeps[k] =
                      Hundredths *
                      Min(retry.cfg.base_delay
                             * Pow(retry.cfg.exponential_base, k - 1),
                          retry.cfg.max_delay)
                /\ retry.sleeps[k] <= Hundredths * retry.cfg.max_delay
           /\ (/\ PersistentlyFailing
               /\ retry.cfg.max_attempts = 3
               /\ retry.cfg.base_delay = 1
               /\ retry.cfg.exponential_base = 2
               /\ retry.cfg.max_delay >= 2)
                  => retry.sleeps = <<1 * Hundredths, 2 * Hundredths>>

\* The example of the claim, and a run whose second delay was capped.
C26_Witness ==
    /\ ~retry.cfg.jitter
    /\ PersistentlyFailing
    /\ retry.cfg.max_attempts = 3
    /\ retry.cfg.base_delay = 1
    /\ retry.cfg.exponential_base = 2
    /\ retry.cfg.max_delay = 4
    /\ retry.sleeps = <<100, 200>>

\* C27 (SpecRetry): with jitter enabled each delay is the un-jittered delay
\* scaled by a factor in [0.5, 1.0], so it is never longer than the
\* un-jittered delay nor than max_delay.  The code scales by
\* 0.5 + random.random(), a factor of [0.5, 1.5): the formula is violated.
C27_JitterNeverLengthens ==
    retry.cfg.jitter
        => \A k \in 1..Len(retry.sleeps) :
              LET d == Min(retry.cfg.base_delay
                              * Pow(retry.cfg.exponential_base, k - 1),
                           retry.cfg.max_delay)
              IN  /\ retry.sleeps[k] >= JitterBase * d
                  /\ retry.sleeps[k] <= Hundredths * d
                  /\ retry.sleeps[k] <= Hundredths * retry.cfg.max_delay

\* C28 (SpecRetry): an error that retryable_exceptions does not select
\* aborts the call at once: func is not invoked again, the wrapper does not
\* sleep, and the error leaves the wrapper unchanged.
C28_NonRetryableAborts ==
    /\ [][(/\ retry.pc = "calling"
           /\ Len(retry'.errors) = Len(retry.errors) + 1
           /\ retry'.errors[Len(retry'.errors)]
                 \notin retry.cfg.retryable_exceptions)
          => (/\ retry'.pc = "raised"
              /\ retry'.error = retry'.errors[Len(retry'.errors)]
              /\ retry'.sleeps = retry.sleeps
              /\ retry'.calls = retry.calls + 1)]_vars
    /\ []((/\ retry.pc = "raised"
           /\ retry.error \notin retry.cfg.retryable_exceptions)
          => (/\ retry.calls = Len(retry.errors)
              /\ Len(retry.sleeps) = retry.calls - 1))

\* A retryable error was retried, then a ValueError that the configuration
\* does not select ended the call on the second of three attempts.
C28_Witness ==
    /\ retry.pc = "raised"
    /\ retry.cfg.max_attempts = 3
    /\ retry.cfg.retryable_exceptions = {"APIError"}
    /\ retry.errors = <<"APIError", "ValueError">>
    /\ retry.error = "ValueError"
    /\ retry.calls = 2
    /\ Len(retry.sleeps) = 1

\* C30 as stated (Spec): when a failure moves the breaker from HALF_OPEN back
\* to OPEN, success_count is zero in the resulting OPEN state.
\* _transition_to(OPEN) resets no counter: the formula is violated.
C30_ReopenResetsSuccesses ==
    [][(last'.op = "raise" /\ cb.state = HALF_OPEN /\ cb'.state = OPEN)
        => cb'.success_count = 0]_vars

\* C30 (Spec), amended: the transition from HALF_OPEN back to OPEN leaves
\* success_count as it was; the counter is set to zero when the breaker next
\* enters HALF_OPEN, so in HALF_OPEN it counts only the successes of the
\* current window and successes recorded before the failure never count
\* toward closing.
C30_SuccessesResetOnHalfOpen ==
    /\ [][(last'.op = "raise" /\ cb.state = HALF_OPEN /\ cb'.state = OPEN)
           => cb'.success_count = cb.success_count]_vars
    /\ [][(cb.state = OPEN /\ cb'.state = HALF_OPEN)
           => cb'.success_count = 0]_vars
    /\ [](cb.state = HALF_OPEN => cb.success_count = hist.window_successes)
    /\ [][(last'.op = "return" /\ cb.state = HALF_OPEN /\ cb'.state = CLOSED)
           => hist.window_successes + 1 >= cfg.half_open_max_calls]_vars

\* A probe succeeded, another probe of the same window failed: the breaker
\* is OPEN and still holds the success.
C30_Witness ==
    /\ cb.state = OPEN
    /\ last.op = "raise"
    /\ last.pre = HALF_OPEN
    /\ cb.success_count > 0
    /\ cb.success_count < cfg.half_open_max_calls
    /\ hist.window_successes = 0

\* A supervisor pass ends with a Router decision d: the step applies the
\* Command of supervisor_on_decision to the state.
SupervisorDecides(d) ==
    /\ run.status = "running"
    /\ run.node = "supervisor"
    /\ run.call # "idle"
    /\ run'.status = "running"
    /\ run'.prev = "supervisor"
    /\ run'.decision = d
    /\ run'.st = ApplyUpdate(run.st, supervisor_on_decision(run.st, d).update)

\* C31 (SpecRun): on the first supervisor pass of a request (messages holds
\* exactly the initial user message) the supervisor's patch carries the raw
\* query text in query; on every later pass the patch does not set query.
\* The patch of a first pass over an empty query has no query key: the
\* formula is violated.
C31_QueryOnFirstPassOnly ==
    [][\A d \in Routes :
          SupervisorDecides(d)
             => LET update == supervisor_on_decision(run.st, d).update
                IN  IF Len(run.st.messages) = 1
                    THEN /\ "query" \in DOMAIN update
                         /\ update.query = run.st.messages[1].content
                         /\ run'.st.query = run.st.messages[1].content
                    ELSE /\ "query" \notin DOMAIN update
                         /\ run'.st.query = run.st.query]_vars

\* C32 (SpecRun): every supervisor pass emits exactly one routing-decision
\* record to the transparency log, with the available options, the chosen
\* option and the reasoning, whatever the outcome of the pass.  Stated for
\* the requests no exception has ended (C17, C19).  A pass that the breaker
\* rejects returns before log_routing_decision: the formula is violated.
C32_OneRecordPerPass ==
    run.status # "failed"
    => /\ run.records = run.passes
       /\ run.passes > 0
          => /\ run.record.available_routes = Routes
             /\ run.record.selected_route \in Routes
             /\ run.record.reasoning = "reasoning"

\* C33 (SpecRun): during a request no node changes id_number or tenant_id,
\* and memory_context is written only by memory_retrieval at the start of
\* the request: the supervisor, the capability nodes and memory_extraction
\* leave it unchanged.
C33_IdentityAndMemoryContextFrame ==
    /\ [][run.status = "running"
           => /\ run'.st.id_number = run.st.id_number
              /\ run'.st.tenant_id = run.st.tenant_id]_vars
    /\ [][(run.status = "running" /\ run.node # "memory_retrieval")
           => run'.st.memory_context = run.st.memory_context]_vars
    /\ [](run.status = "running" /\ run.node = "memory_retrieval"
             => run.steps = 0 /\ run.st.memory_context = "")

\* A request has passed the supervisor twice, a capability node and
\* memory_extraction and still holds the memories retrieved at its start.
C33_Witness ==
    /\ run.status = "returned"
    /\ run.steps = 5
    /\ run.passes = 2
    /\ run.st.memory_context = "memories"
    /\ run.st.id_number = query_data.id_number
    /\ run.st.tenant_id = query_data.tenant_id

\* C34 (Spec): in every reachable state of a breaker, under any interleaving
\* of admissions, completions, status reads and resets: CLOSED implies
\* failure_count < failure_threshold; half_open_calls never exceeds
\* half_open_max_calls; success_count stays below half_open_max_calls; and
\* success_count and half_open_calls are zero whenever the state is CLOSED.
C34_BreakerInvariants ==
    /\ cb.state = CLOSED => cb.failure_count < cfg.failure_threshold
    /\ cb.half_open_calls <= cfg.half_open_max_calls
    /\ cb.success_count < cfg.half_open_max_calls
    /\ cb.state = CLOSED => cb.success_count = 0 /\ cb.half_open_calls = 0
    /\ cb.failure_count >= 0 /\ cb.success_count >= 0
    /\ cb.half_open_calls >= 0

\* All probe slots of a window are used, one probe has succeeded, and a call
\* admitted before the breaker opened is still running.
C34_Witness ==
    /\ cb.state = HALF_OPEN
    /\ cfg.half_open_max_calls = 2
    /\ cb.half_open_calls = cfg.half_open_max_calls
    /\ cb.success_count = cfg.half_open_max_calls - 1
    /\ cb.failure_count >= cfg.failure_threshold

\* C35 (Spec): only calls admitted as probes of the current HALF_OPEN window
\* count toward closing it: a success reported, while HALF_OPEN, by a call
\* that was admitted while CLOSED neither advances success_count nor closes
\* the breaker.  _on_success looks at the breaker's state only, not at how
\* the call was admitted: the formula is violated.
C35_StaleSuccessNotCounted ==
    [][\A t \in Threads :
          (/\ inflight[t] = "closed"
           /\ inflight'[t] = "idle"
           /\ last'.op = "return"
           /\ cb.state = HALF_OPEN)
          => /\ cb'.success_count = cb.success_count
             /\ cb'.state = HALF_OPEN]_vars

\* C36 (Spec): a failure reported while the breaker is OPEN, by a call
\* admitted before it opened, leaves the state OPEN, increments
\* failure_count and sets last_failure_time to the time of that failure, so
\* that the recovery timeout is measured from the latest failure.
C36_FailureWhileOpenRestartsRecovery ==
    [][(last'.op = "raise" /\ cb.state = OPEN)
        => /\ cb'.state = OPEN
           /\ cb'.failure_count = cb.failure_count + 1
           /\ cb'.last_failure_time = now
           /\ cb'.success_count = cb.success_count
           /\ cb'.half_open_calls = cb.half_open_calls
           /\ \A d \in 0..cfg.recovery_timeout :
                check_state_transition(cb', cfg, now + d).state =
                   IF d < cfg.recovery_timeout THEN OPEN ELSE HALF_OPEN]_vars

\* A call admitted before the breaker opened has failed after the time at
\* which the breaker would have recovered: the breaker is still OPEN and the
\* recovery timeout runs again from now.
C36_Witness ==
    /\ last.op = "raise"
    /\ last.pre = OPEN
    /\ cb.state = OPEN
    /\ cb.failure_count = last.fc + 1
    /\ cb.failure_count > cfg.failure_threshold
    /\ cb.last_failure_time = now
    /\ now >= cfg.recovery_timeout
    /\ check_state_transition(cb, cfg, now).state = OPEN

\* C37 (SpecLive): if every admitted call eventually completes, a breaker
\* that is HALF_OPEN with all half_open_max_calls probe slots used eventually
\* leaves HALF_OPEN (to CLOSED or to OPEN), under any interleaving with calls
\* admitted earlier and with resets.
C37_HalfOpenEventuallyLeft ==
    (cb.state = HALF_OPEN /\ cb.half_open_calls = cfg.half_open_max_calls)
        ~> (cb.state # HALF_OPEN)

\* Both probe slots of a window are used, no probe has completed yet, and
\* every further call is rejected.
C37_Witness ==
    /\ cb.state = HALF_OPEN
    /\ cfg.half_open_max_calls = 2
    /\ cb.half_open_calls = cfg.half_open_max_calls
    /\ cb.success_count = 0
    /\ admission(cb, cfg) = "rejected_half_open"
    /\ \A t \in Threads : inflight[t] = "probe"

\* C38 (Spec): a call the breaker rejects (OPEN, or HALF_OPEN with the probe
\* slots used up) is not counted as a failure: the rejection leaves state,
\* failure_count, success_count, half_open_calls and last_failure_time
\* unchanged (a call whose lazy check moves OPEN to HALF_OPEN is admitted, not
\* rejected), so rejections never extend the recovery window.
C38_RejectionChangesNothing ==
    [][(last'.op = "call" /\ last'.res \in Rejections)
        => /\ cb' = cb
           /\ check_state_transition(cb, cfg, now) = cb
           /\ \A d \in 0..cfg.recovery_timeout :
                check_state_transition(cb', cfg, now + d)
                   = check_state_transition(cb, cfg, now + d)]_vars

\* A call is rejected while OPEN, some time after the failure that opened
\* the breaker and before the recovery timeout has passed.
C38_Witness ==
    /\ last.op = "call"
    /\ last.res = "rejected_open"
    /\ cb.state = OPEN
    /\ cb.failure_count = cfg.failure_threshold
    /\ cb.last_failure_time < now
    /\ last.remaining > 0

\* C39 (SpecEnsure): _ensure_agent returns a compiled graph, never None, on
\* every call, and DoctorAppointmentAgent is constructed at most once, also
\* when several first requests run it concurrently on different threads.
C39_GraphReturnedAndBuiltOnce ==
    /\ \A t \in Threads : api.returned[t] => api.result[t] # None
    /\ api.constructions <= 1

\* C40 (SpecPrompts): activate(name, version) for a version that does not
\* exist raises ValueError and leaves the status of every version of that
\* prompt unchanged, so the version that was ACTIVE is still ACTIVE.
C40_FailedActivateChangesNothing ==
    [][(/\ prompts'.op = "activate"
        /\ ~has_version(prompts.versions[prompts'.name], prompts'.version))
        => (/\ prompts'.raised = "ValueError"
            /\ prompts'.versions = prompts.versions)]_vars

=============================================================================
